---------------------------- MODULE Spec2Model ----------------------------
(***************************************************************************)
(* A model of styx: the Prometheus range-query client (prometheus.go) and  *)
(* the renderers (csvWriter, csvHeaderWriter, matplotlibWriter,            *)
(* matplotlibLegendWriter).                                                *)
(*                                                                         *)
(* Go strings are modelled as sequences of byte values, so that the        *)
(* byte-wise order of Go's string "<" and the text produced by fmt.Sprintf *)
(* are computed, not assumed.  Go maps are modelled as TLA+ functions; the *)
(* unspecified iteration order of "range m" is an input of every action    *)
(* that ranges over a map.                                                 *)
(***************************************************************************)
EXTENDS Integers, Sequences, FiniteSets, TLC

VARIABLES
    step,        \* steps: the explicit step argument
    dur,         \* steps: the window duration, in whole seconds
    stepsCalled, \* steps: whether steps has returned
    stepsRet,    \* steps: the value steps returned
    metric,      \* metricName: the label set (map[string]string)
    nameCalled,  \* metricName: whether metricName has returned
    nameRet,     \* metricName: the string returned by the latest call
    nameSeen,    \* metricName: every string returned for this label set
    results,     \* renderers: the SeriesSet ([]Result)
    renderer,    \* renderers: the renderer called ("none" before the first call)
    w,           \* renderers: what the latest call wrote to its sink
    renderErr,   \* renderers: the error the latest call returned
    wSeen,       \* renderers: everything a call has written for this SeriesSet
    call,        \* queries: the arguments and the environment of the call
    server,      \* queries: what the HTTP exchange yields
    queryOut,    \* queries: the outcome of Query
    icpOut       \* queries: the outcome of IcpQuery

stepsVars == <<step, dur, stepsCalled, stepsRet>>
nameVars == <<metric, nameCalled, nameRet, nameSeen>>
renderVars == <<results, renderer, w, renderErr, wSeen>>
queryVars == <<call, server, queryOut, icpOut>>
vars == <<stepsVars, nameVars, renderVars, queryVars>>

-----------------------------------------------------------------------------
(* Strings *)

\* Go's string comparison a < b: byte-wise lexicographic.
RECURSIVE StrLess(_, _)
StrLess(a, b) ==
    IF b = <<>> THEN FALSE
    ELSE IF a = <<>> THEN TRUE
    ELSE IF Head(a) # Head(b) THEN Head(a) < Head(b)
    ELSE StrLess(Tail(a), Tail(b))

\* The decimal digits of a natural number, most significant first.
RECURSIVE FormatNat(_)
FormatNat(n) ==
    IF n < 10 THEN <<48 + n>> ELSE Append(FormatNat(n \div 10), 48 + (n % 10))

\* fmt.Sprintf("%d", n)
FormatInt(n) == IF n < 0 THEN <<45>> \o FormatNat(-n) ELSE FormatNat(n)

-----------------------------------------------------------------------------
(* float64 arithmetic, as used by dur.Minutes() / 4.2                      *)
(*                                                                         *)
(* A non-negative float64 is a pair (m, e) standing for m * 2^e, with m = 0 *)
(* or 2^52 <= m < 2^53.  The 53-bit significands and the 110-bit           *)
(* intermediate quotients are held as little-endian vectors of NLimbs      *)
(* limbs of LimbBits bits.  Every operation rounds the exact result to the *)
(* nearest float64, ties to even, as IEEE 754 division and addition do.    *)
(* All values here are far from the subnormal and overflow ranges.         *)

LimbBits == 24
NLimbs == 6
LimbBase == 2^LimbBits

\* The limb vector whose limb i is L(i), for i in 1..NLimbs.
MkBig(L(_)) == <<L(1), L(2), L(3), L(4), L(5), L(6)>>

\* A natural number below 2^31 as a limb vector.
BigOfNat(n) ==
    LET L(i) == IF i = 1 THEN n % LimbBase ELSE IF i = 2 THEN n \div LimbBase ELSE 0
    IN  MkBig(L)

\* The value of a limb vector known to be below 2^31.
BigToNat(a) == a[1] + a[2] * LimbBase

BigIsZero(a) == \A i \in 1..NLimbs : a[i] = 0

\* -1, 0 or 1 as a < b, a = b or a > b.
BigCmp(a, b) ==
    LET D == {i \in 1..NLimbs : a[i] # b[i]}
    IN  IF D = {} THEN 0
        ELSE LET t == CHOOSE i \in D : \A j \in D : j <= i
             IN  IF a[t] < b[t] THEN -1 ELSE 1

\* a * 2^k
BigShl(a, k) ==
    LET s == k \div LimbBits
        b == k % LimbBits
        L(i) ==
            (IF i - s >= 1
                THEN (a[i - s] % (2^(LimbBits - b))) * (2^b) ELSE 0)
          + (IF i - s - 1 >= 1 /\ b > 0
                THEN a[i - s - 1] \div (2^(LimbBits - b)) ELSE 0)
    IN  MkBig(L)

\* a \div 2^k
BigShr(a, k) ==
    LET s == k \div LimbBits
        b == k % LimbBits
        L(i) ==
            (IF i + s <= NLimbs THEN a[i + s] \div (2^b) ELSE 0)
          + (IF i + s + 1 <= NLimbs /\ b > 0
                THEN (a[i + s + 1] % (2^b)) * (2^(LimbBits - b)) ELSE 0)
    IN  MkBig(L)

RECURSIVE BigCarry(_, _, _)
BigCarry(a, b, i) ==
    IF i = 0 THEN 0 ELSE (a[i] + b[i] + BigCarry(a, b, i - 1)) \div LimbBase

BigAdd(a, b) ==
    LET L(i) == (a[i] + b[i] + BigCarry(a, b, i - 1)) % LimbBase
    IN  MkBig(L)

RECURSIVE BigBorrow(_, _, _)
BigBorrow(a, b, i) ==
    IF i = 0 THEN 0
    ELSE IF a[i] - b[i] - BigBorrow(a, b, i - 1) < 0 THEN 1 ELSE 0

\* a - b, for a >= b
BigSub(a, b) ==
    LET L(i) == (a[i] - b[i] - BigBorrow(a, b, i - 1) + LimbBase) % LimbBase
    IN  MkBig(L)

\* The number of significant bits of a (0 for 0).
BigBitLen(a) ==
    IF BigIsZero(a) THEN 0
    ELSE LET t == CHOOSE i \in 1..NLimbs :
                    a[i] # 0 /\ \A j \in (i + 1)..NLimbs : a[j] = 0
         IN  LimbBits * (t - 1)
               + (CHOOSE k \in 1..LimbBits : 2^(k - 1) <= a[t] /\ a[t] < 2^k)

\* Bit i of a (bit 0 is the least significant).
BigBit(a, i) == (a[(i \div LimbBits) + 1] \div (2^(i % LimbBits))) % 2

\* One step of binary long division of n by d: bit i of n is brought down;
\* st holds the quotient and the remainder so far.
BigDivStep(n, d, st, i) ==
    LET r2 == [BigShl(st.r, 1) EXCEPT ![1] = @ + BigBit(n, i)]
        q2 == BigShl(st.q, 1)
    IN  IF BigCmp(r2, d) >= 0
           THEN [q |-> [q2 EXCEPT ![1] = @ + 1], r |-> BigSub(r2, d)]
           ELSE [q |-> q2, r |-> r2]

\* The steps for bits hi, hi - 1, ..., lo, in this order.  The range is split
\* in halves and the first half is completed (its remainder is compared with
\* d, which it never reaches) before the second is begun, which keeps the
\* evaluation shallow.
RECURSIVE BigDivBits(_, _, _, _, _)
BigDivBits(n, d, st, hi, lo) ==
    IF hi < lo THEN st
    ELSE IF hi = lo THEN BigDivStep(n, d, st, hi)
    ELSE LET mid == (hi + lo) \div 2
             left == BigDivBits(n, d, st, hi, mid + 1)
         IN  IF BigCmp(left.r, d) < 0
                THEN BigDivBits(n, d, left, mid, lo)
                ELSE left

\* Quotient and remainder of n by d > 0.  The leading bits of n that are
\* fewer than the bits of d cannot reach d: they start the remainder.
BigDivMod(n, d) ==
    LET ln == BigBitLen(n)
        ld == BigBitLen(d)
        top == IF ln < ld - 1 THEN ln ELSE ld - 1
    IN  BigDivBits(n, d, [q |-> BigOfNat(0), r |-> BigShr(n, ln - top)],
                   ln - top - 1, 0)

\* The float64 nearest to the integer v, or, when sticky, to a value just
\* above v (then v has at least 54 bits); ties to even.
RoundBig(v, sticky) ==
    LET len == BigBitLen(v)
        k == len - 53                   \* the bits too many
        m0 == BigShr(v, k)
        c == BigCmp(BigSub(v, BigShl(m0, k)), BigShl(BigOfNat(1), k - 1))
        up == c > 0 \/ (c = 0 /\ (sticky \/ m0[1] % 2 = 1))
        m1 == IF up THEN BigAdd(m0, BigOfNat(1)) ELSE m0
    IN  IF len = 0 THEN [m |-> v, e |-> 0]
        ELSE IF len <= 53 THEN [m |-> BigShl(v, 53 - len), e |-> len - 53]
        ELSE IF BigBitLen(m1) = 54 THEN [m |-> BigShr(m1, 1), e |-> k + 1]
        ELSE [m |-> m1, e |-> k]

\* The float64 nearest to the rational p / q (p >= 0, q > 0), ties to even:
\* p is scaled by 2^sh so that the integer quotient has 54 or 55 bits.
RoundRat(p, q) ==
    IF BigIsZero(p) THEN [m |-> p, e |-> 0]
    ELSE LET sh == BigBitLen(q) + 54 - BigBitLen(p)
             n == IF sh > 0 THEN BigShl(p, sh) ELSE p
             d == IF sh < 0 THEN BigShl(q, -sh) ELSE q
             qr == BigDivMod(n, d)           \* p / q = (n / d) * 2^(-sh)
             r == RoundBig(qr.q, ~BigIsZero(qr.r))
         IN  [m |-> r.m, e |-> r.e - sh]

\* float64(n) for an integer 0 <= n < 2^31 (exact).
FloatOfNat(n) == RoundBig(BigOfNat(n), FALSE)

\* x / y in float64, y > 0.
FloatQuo(x, y) ==
    LET r == RoundRat(x.m, y.m)
    IN  IF BigIsZero(x.m) THEN x ELSE [m |-> r.m, e |-> r.e + x.e - y.e]

\* x + y in float64.
FloatAdd(x, y) ==
    IF BigIsZero(x.m) THEN y
    ELSE IF BigIsZero(y.m) THEN x
    ELSE LET e == IF x.e < y.e THEN x.e ELSE y.e
             r == RoundBig(BigAdd(BigShl(x.m, x.e - e), BigShl(y.m, y.e - e)),
                           FALSE)
         IN  [m |-> r.m, e |-> r.e + e]

\* int(x) for a float64 0 <= x < 2^31: truncation.
FloatTrunc(x) ==
    IF x.e >= 0 THEN BigToNat(BigShl(x.m, x.e)) ELSE BigToNat(BigShr(x.m, -x.e))

-----------------------------------------------------------------------------
(* Resolution selector: steps *)

\* time.Minute, with time.Duration counted in whole seconds.
Minute == 60

\* The constant 4.2 as float64.
Float4_2 == RoundRat(BigOfNat(42), BigOfNat(10))

\* Duration.Minutes() for d >= 0:
\*   min := d / Minute; nsec := d % Minute
\*   return float64(min) + float64(nsec)/(60*1e9)
\* nsec and 60*1e9 are integers below 2^53, so both are exact in float64 and
\* the quotient is the float64 nearest to (d % Minute) / Minute.
Minutes(d) ==
    FloatAdd(FloatOfNat(d \div Minute),
             FloatQuo(FloatOfNat(d % Minute), FloatOfNat(Minute)))

\* steps without its two short-window branches: the quotient for every
\* duration.
steps_quotientOnly(stp, d) ==
    IF stp > 0 THEN stp
    ELSE FloatTrunc(FloatQuo(Minutes(d), Float4_2))

\* steps(step, dur)
steps(stp, d) ==
    IF stp > 0 THEN stp
    ELSE IF d < 15 * Minute THEN 1
    ELSE IF d < 30 * Minute THEN 3
    ELSE FloatTrunc(FloatQuo(Minutes(d), Float4_2))
\* The inputs of steps: explicit steps up to MaxStep (0 and -1 mean unset),
\* durations of 0..MaxDurSec seconds and the two-hour window.
MaxStep == 5
MaxDurSec == 2400
StepInputs == (-1)..MaxStep
DurInputs == (0..MaxDurSec) \cup {120 * Minute}



\* A call steps(step, dur).
Steps ==
    /\ ~stepsCalled
    /\ stepsCalled' = TRUE
    /\ stepsRet' = steps(step, dur)
    /\ UNCHANGED <<step, dur, nameVars, renderVars, queryVars>>

-----------------------------------------------------------------------------
(* Metric name canonicalizer: metricName *)

Str_name == <<95, 95, 110, 97, 109, 101, 95, 95>>   \* "__name__"
Str_instance == <<105, 110, 115, 116, 97, 110, 99, 101>>   \* "instance"
Str_job == <<106, 111, 98>>   \* "job"
Str_job2 == <<106, 111, 98, 50>>   \* "job2"
Str_mode == <<109, 111, 100, 101>>   \* "mode"
Str_up == <<117, 112>>   \* "up"
Str_api == <<97, 112, 105>>   \* "api"
Str_h1 == <<104, 49>>   \* "h1"
Str_cpu == <<99, 112, 117>>   \* "cpu"
Str_idle == <<105, 100, 108, 101>>   \* "idle"
Str_braces == <<123, 125>>   \* "{}"
Str_lbrace == <<123>>   \* "{"
Str_rbrace == <<125>>   \* "}"
Str_comma == <<44>>   \* ","

\* strings.Join(elems, sep)
RECURSIVE Join(_, _)
Join(elems, sep) ==
    IF elems = <<>> THEN <<>>
    ELSE IF Len(elems) = 1 THEN elems[1]
    ELSE elems[1] \o sep \o Join(Tail(elems), sep)

\* x put in its place in the ascending sequence sorted.
RECURSIVE InsertSorted(_, _)
InsertSorted(sorted, x) ==
    IF sorted = <<>> THEN <<x>>
    ELSE IF StrLess(x, Head(sorted)) THEN <<x>> \o sorted
    ELSE <<Head(sorted)>> \o InsertSorted(Tail(sorted), x)

\* A sort that leaves s as it is.
SortStrings_asGiven(s) == s

\* sort.Slice(s, func(i, j int) bool { return s[i] < s[j] }): s in ascending
\* byte-wise order.  Equal strings are indistinguishable, so the result does
\* not depend on the sorting algorithm.
RECURSIVE SortStrings(_)
SortStrings(s) ==
    IF s = <<>> THEN <<>>
    ELSE InsertSorted(SortStrings(Tail(s)), Head(s))

\* The orders in which "range m" may visit the keys of a map with key set S.
Orders(S) ==
    {o \in [1..Cardinality(S) -> S] :
        \A i, j \in 1..Cardinality(S) : i # j => o[i] # o[j]}

\* fmt.Sprintf(`%s="%s"`, key, value)
Fragment(key, value) == key \o <<61, 34>> \o value \o <<34>>

\* The slice inner after the loop over the keys in the given order.
RECURSIVE InnerOf(_, _)
InnerOf(m, order) ==
    IF order = <<>> THEN <<>>
    ELSE IF Head(order) = Str_name THEN InnerOf(m, Tail(order))
    ELSE <<Fragment(Head(order), m[Head(order)])>> \o InnerOf(m, Tail(order))

\* metricName(m), the keys of m being visited in the given order.
metricName(m, order) ==
    IF Cardinality(DOMAIN m) = 0 THEN Str_braces
    ELSE LET out == IF Str_name \in DOMAIN m THEN m[Str_name] ELSE <<>>
             inner == InnerOf(m, order)
         IN  IF Len(inner) = 0 THEN out
             ELSE out \o Str_lbrace \o Join(SortStrings(inner), Str_comma)
                      \o Str_rbrace

\* The label sets: at most MaxLabels labels, with keys of LabelKeys and values
\* of LabelValues.
MaxLabels == 3
LabelKeys == {Str_name, Str_instance, Str_job, Str_job2, Str_mode}
LabelValues == {Str_up, Str_api, Str_h1, Str_cpu, Str_idle}
LabelSets ==
    UNION {[K -> LabelValues] : K \in {K0 \in SUBSET LabelKeys : Cardinality(K0) <= MaxLabels}}



\* A call metricName(metric); the map iteration order is Go's choice.
MetricName ==
    \E order \in Orders(DOMAIN metric) :
        /\ nameCalled' = TRUE
        /\ nameRet' = metricName(metric, order)
        /\ nameSeen' = nameSeen \cup {nameRet'}
        /\ UNCHANGED <<metric, stepsVars, renderVars, queryVars>>

-----------------------------------------------------------------------------
(* Renderers: csvWriter, csvHeaderWriter, matplotlibWriter,                *)
(* matplotlibLegendWriter                                                  *)
(*                                                                         *)
(* A Result is [Metric |-> string, Values |-> map from key to value].  The *)
(* sink w is the sequence of the writes made to it.  A write is the text   *)
(* written, except that the text of time.Unix(n, 0).String(), which        *)
(* depends on the local time zone, is kept as the instant n.               *)

Str_Time == <<84, 105, 109, 101>>   \* Time
Str_None == <<78, 111, 110, 101>>   \* None
Str_nl == <<10>>   \* \n
Str_commaSpace == <<44, 32>>   \* , 
Str_tOpen == <<116, 32, 61, 32, 91>>   \* t = [
Str_listClose == <<93, 10>>   \* ]\n
Str_s == <<115>>   \* s
Str_listOpen == <<32, 61, 32, 91>>   \*  = [
Str_plotOpen == <<112, 108, 111, 116, 46, 112, 108, 111, 116, 40, 116, 44, 32, 115>>   \* plot.plot(t, s
Str_plotClose == <<41, 10>>   \* )\n
Str_legendOpen == <<112, 108, 111, 116, 46, 108, 101, 103, 101, 110, 100, 40, 91>>   \* plot.legend([
Str_legendClose == <<93, 44, 32, 108, 111, 99, 61, 39, 117, 112, 112, 101, 114, 32, 108, 101, 102, 116, 39, 41, 10>>   \* ], loc='upper left')\n
Str_quote == <<39>>   \* '
Str_upJobA == <<117, 112, 123, 106, 111, 98, 61, 34, 97, 34, 125>>   \* up{job="a"}
Str_upJobB == <<117, 112, 123, 106, 111, 98, 61, 34, 98, 34, 125>>   \* up{job="b"}
Str_0 == <<48>>   \* 0
Str_1 == <<49>>   \* 1

Text(t) == [kind |-> "text", text |-> t, unix |-> 0]
Date(n) == [kind |-> "date", text |-> <<>>, unix |-> n]

\* The value of a string of decimal digits.
RECURSIVE ParseNat(_)
ParseNat(ds) ==
    IF ds = <<>> THEN 0
    ELSE ParseNat(SubSeq(ds, 1, Len(ds) - 1)) * 10 + (ds[Len(ds)] - 48)

\* i64, _ := strconv.ParseInt(s, 10, 64): an optional sign and decimal digits;
\* on a syntax error the value is 0 (the error is dropped by the caller).
ParseInt(str) ==
    LET ds == IF str # <<>> /\ str[1] \in {43, 45} THEN Tail(str) ELSE str
    IN  IF ds = <<>> \/ \E i \in 1..Len(ds) : ds[i] \notin 48..57 THEN 0
        ELSE IF str[1] = 45 THEN -ParseNat(ds) ELSE ParseNat(ds)

\* The concatenation of a sequence of sequences.
RECURSIVE Flatten(_)
Flatten(ss) == IF ss = <<>> THEN <<>> ELSE Head(ss) \o Flatten(Tail(ss))

\* The keys of timesMap after the first loop: every key of every result.
TimesMap(rs) == UNION {DOMAIN rs[i].Values : i \in 1..Len(rs)}

\* result.Values[tm]: the zero value "" when the key is absent.
MapGet(m, key) == IF key \in DOMAIN m THEN m[key] ELSE <<>>

\* The writes of one row of csvWriter.
CsvRow(rs, tm) ==
    <<Date(ParseInt(tm))>>
    \o [i \in 1..Len(rs) |-> Text(<<44>> \o MapGet(rs[i].Values, tm))]
    \o <<Text(Str_nl)>>

\* csvWriter without the sort of the timestamps.
csvWriter_unsorted(rs, order) ==
    IF Len(rs) = 0 THEN <<>>
    ELSE Flatten([r \in 1..Len(order) |-> CsvRow(rs, order[r])])

\* csvWriter(w, results), timesMap being ranged over in the given order.
csvWriter(rs, order) ==
    IF Len(rs) = 0 THEN <<>>
    ELSE LET times == SortStrings(order)
         IN  Flatten([r \in 1..Len(times) |-> CsvRow(rs, times[r])])

\* csvHeaderWriter(w, results)
csvHeaderWriter(rs) ==
    IF Len(rs) = 0 THEN <<>>
    ELSE LET header == <<Str_Time>> \o [i \in 1..Len(rs) |-> rs[i].Metric]
         IN  <<Text(Join(header, Str_comma) \o Str_nl)>>

\* The slice vals when an absent sample appends nothing.
MatplotlibVals_presentOnly(result, times) ==
    LET present == SelectSeq(times, LAMBDA tm : tm \in DOMAIN result.Values)
    IN  [r \in 1..Len(present) |-> result.Values[present[r]]]

\* The slice vals of matplotlibWriter for one result.
MatplotlibVals(result, times) ==
    [r \in 1..Len(times) |->
        IF times[r] \in DOMAIN result.Values
            THEN result.Values[times[r]] ELSE Str_None]

\* The two writes of matplotlibWriter for results[i] (i counts from 0).
MatplotlibSeries(result, i, times) ==
    <<Text(Str_s \o FormatInt(i) \o Str_listOpen
            \o Join(MatplotlibVals(result, times), Str_commaSpace) \o Str_listClose),
      Text(Str_plotOpen \o FormatInt(i) \o Str_plotClose)>>

\* matplotlibWriter(w, results), timesMap being ranged over in the given order.
matplotlibWriter(rs, order) ==
    IF Len(rs) = 0 THEN <<>>
    ELSE LET times == SortStrings(order)
         IN  <<Text(Str_tOpen \o Join(times, Str_commaSpace) \o Str_listClose)>>
             \o Flatten([i \in 1..Len(rs) |-> MatplotlibSeries(rs[i], i - 1, times)])

\* matplotlibLegendWriter(w, results)
matplotlibLegendWriter(rs) ==
    LET labels == [i \in 1..Len(rs) |-> Str_quote \o rs[i].Metric \o Str_quote]
    IN  <<Text(Str_legendOpen \o Join(labels, Str_commaSpace) \o Str_legendClose)>>

\* The SeriesSets rendered: at most MaxSeries Series, each either
\* up{job="a"}, with the value "1" at any of the timestamps 5, 10, 20, or
\* up{job="b"}, with the value "0" at any of the timestamps 10, 20, 30.
MaxSeries == 2
TimeKeys(ts) == {FormatInt(t) : t \in ts}
SeriesInputs ==
    {[Metric |-> Str_upJobA, Values |-> [tm \in K |-> Str_1]] :
        K \in SUBSET TimeKeys({5, 10, 20})}
    \cup {[Metric |-> Str_upJobB, Values |-> [tm \in K |-> Str_0]] :
        K \in SUBSET TimeKeys({10, 20, 30})}
SeriesSets == UNION {[1..n -> SeriesInputs] : n \in 0..MaxSeries}

\* A call csvWriter(w, results) with a fresh sink w.
CsvWriter ==
    /\ renderer \in {"none", "csvWriter"}
    /\ \E order \in Orders(TimesMap(results)) :
           w' = csvWriter(results, order)
    /\ renderer' = "csvWriter"
    /\ renderErr' = "nil"
    /\ wSeen' = wSeen \cup {w'}
    /\ UNCHANGED <<results, stepsVars, nameVars, queryVars>>

\* A call csvHeaderWriter(w, results) with a fresh sink w.
CsvHeaderWriter ==
    /\ renderer \in {"none", "csvHeaderWriter"}
    /\ w' = csvHeaderWriter(results)
    /\ renderer' = "csvHeaderWriter"
    /\ renderErr' = "nil"
    /\ wSeen' = wSeen \cup {w'}
    /\ UNCHANGED <<results, stepsVars, nameVars, queryVars>>

\* A call matplotlibWriter(w, results) with a fresh sink w.
MatplotlibWriter ==
    /\ renderer \in {"none", "matplotlibWriter"}
    /\ \E order \in Orders(TimesMap(results)) :
           w' = matplotlibWriter(results, order)
    /\ renderer' = "matplotlibWriter"
    /\ renderErr' = "nil"
    /\ wSeen' = wSeen \cup {w'}
    /\ UNCHANGED <<results, stepsVars, nameVars, queryVars>>

\* A call matplotlibLegendWriter(w, results) with a fresh sink w.
MatplotlibLegendWriter ==
    /\ renderer \in {"none", "matplotlibLegendWriter"}
    /\ w' = matplotlibLegendWriter(results)
    /\ renderer' = "matplotlibLegendWriter"
    /\ renderErr' = "nil"
    /\ wSeen' = wSeen \cup {w'}
    /\ UNCHANGED <<results, stepsVars, nameVars, queryVars>>

-----------------------------------------------------------------------------
(* Range query client: Query and IcpQuery                                  *)
(*                                                                         *)
(* call is the arguments and the environment of a call; server is what the *)
(* HTTP exchange yields.  A JSON element of a sample pair is a number (a   *)
(* timestamp, held in half seconds) or a string.  The outcome of a run     *)
(* records the requests issued, the request sent and how the run ended:    *)
(* "series" (results, nil), "error" (nil, err), "fatal" (log.Fatal ends    *)
(* the process) or "panic" (a run-time panic).                             *)

Num(h) == [t |-> "num", num |-> h, str |-> <<>>]
Str(x) == [t |-> "str", num |-> 0, str |-> x]

\* fmt.Sprintf("%.f", ts) for the float64 ts = h / 2: the sign when the sign
\* bit is set, then the magnitude rounded to an integer, halves to even.
FormatFloat0(h) ==
    LET a == IF h < 0 THEN -h ELSE h
        q == a \div 2
        rounded == IF a % 2 = 1 /\ q % 2 = 1 THEN q + 1 ELSE q
    IN  IF h < 0 THEN <<45>> \o FormatNat(rounded) ELSE FormatNat(rounded)

\* The run-time panic of the two type assertions on a sample pair, if any:
\* vals[0].(float64), then vals[1].(string).
PairFault(vals) ==
    IF Len(vals) < 1 THEN "index out of range"
    ELSE IF vals[1].t # "num" THEN "interface conversion"
    ELSE IF Len(vals) < 2 THEN "index out of range"
    ELSE IF vals[2].t # "str" THEN "interface conversion"
    ELSE "none"

\* The map values after the loop over res.Values: a later pair overwrites an
\* earlier one with the same key.
RECURSIVE SamplesOf(_)
SamplesOf(pairs) ==
    IF pairs = <<>> THEN <<>>
    ELSE LET vals == pairs[Len(pairs)]
         IN  (FormatFloat0(vals[1].num) :> vals[2].str)
                 @@ SamplesOf(SubSeq(pairs, 1, Len(pairs) - 1))

\* The first panic of the loops over the result series and their pairs.
RECURSIVE FirstFault(_)
FirstFault(pairs) ==
    IF pairs = <<>> THEN "none"
    ELSE IF PairFault(Head(pairs)) # "none" THEN PairFault(Head(pairs))
    ELSE FirstFault(Tail(pairs))

\* All pairs of all result series, in response order.
AllPairs(result) == Flatten([i \in 1..Len(result) |-> result[i].values])

NoReq == [method |-> "", path |-> "", query |-> "", start |-> <<>>, end |-> <<>>,
          step |-> <<>>, authorization |-> ""]
NoErr == [kind |-> "", status |-> 0, path |-> "", resultType |-> ""]
NotRun == [done |-> FALSE, gets |-> 0, req |-> NoReq,
           ret |-> [kind |-> "", results |-> <<>>, err |-> NoErr]]

Returned(kind, series, err) == [kind |-> kind, results |-> series, err |-> err]
Failed(kind) == Returned("error", <<>>, [NoErr EXCEPT !.kind = kind])
Ran(gets, req, ret) == [done |-> TRUE, gets |-> gets, req |-> req, ret |-> ret]

QueryPath == "api/v1/query_range"
IcpQueryPath == "prometheus/api/v1/query_range"

\* Query from the response on: the status, the body, the result type, the
\* result series; ords[i] is the order in which metricName ranges over the
\* labels of result series i.
QueryResponse(sv, ords) ==
    IF sv.status # 200 THEN
        Returned("error", <<>>,
                 [NoErr EXCEPT !.kind = "status", !.status = sv.status,
                               !.path = QueryPath])
    ELSE IF ~sv.json THEN Failed("decode")
    ELSE IF sv.resultType # "matrix" THEN
        Returned("error", <<>>,
                 [NoErr EXCEPT !.kind = "result type", !.resultType = sv.resultType])
    ELSE IF Len(sv.result) = 0 THEN Failed("no timeseries")
    ELSE IF FirstFault(AllPairs(sv.result)) # "none" THEN
        Returned("panic", <<>>,
                 [NoErr EXCEPT !.kind = FirstFault(AllPairs(sv.result))])
    ELSE
        Returned("series",
                 [i \in 1..Len(sv.result) |->
                     [Metric |-> metricName(sv.result[i].metric, ords[i]),
                      Values |-> SamplesOf(sv.result[i].values)]],
                 NoErr)

\* Query(host, start, end, step, query).
QueryRun(c, sv, ords) ==
    IF ~c.hostParses THEN Ran(0, NoReq, Failed("url parse"))
    ELSE IF ~c.certReadable THEN Ran(0, NoReq, Returned("fatal", <<>>, NoErr))
    ELSE Ran(1,
             [method |-> "GET",
              path |-> QueryPath,
              query |-> c.query,
              start |-> FormatInt(c.start),
              end |-> FormatInt(c.end),
              step |-> FormatInt(steps(c.step, c.end - c.start)),
              authorization |-> ""],
             IF sv.transport # "ok" THEN Failed("transport")
             ELSE QueryResponse(sv, ords))

\* IcpQuery from the response on.
IcpQueryResponse(sv, ords) ==
    IF sv.status # 200 THEN
        Returned("error", <<>>,
                 [NoErr EXCEPT !.kind = "status", !.status = sv.status,
                               !.path = IcpQueryPath])
    ELSE IF ~sv.json THEN Failed("decode")
    ELSE IF sv.resultType # "matrix" THEN
        Returned("error", <<>>,
                 [NoErr EXCEPT !.kind = "result type", !.resultType = sv.resultType])
    ELSE IF Len(sv.result) = 0 THEN Failed("no timeseries")
    ELSE IF FirstFault(AllPairs(sv.result)) # "none" THEN
        Returned("panic", <<>>,
                 [NoErr EXCEPT !.kind = FirstFault(AllPairs(sv.result))])
    ELSE
        Returned("series",
                 [i \in 1..Len(sv.result) |->
                     [Metric |-> metricName(sv.result[i].metric, ords[i]),
                      Values |-> SamplesOf(sv.result[i].values)]],
                 NoErr)

\* IcpQuery sending the step it was given, not the step steps resolves.
IcpQueryRun_givenStep(c, sv, ords) ==
    IF ~c.hostParses THEN Ran(0, NoReq, Failed("url parse"))
    ELSE IF ~c.certReadable THEN Ran(0, NoReq, Returned("fatal", <<>>, NoErr))
    ELSE Ran(1,
             [method |-> "GET",
              path |-> IcpQueryPath,
              query |-> c.query,
              start |-> FormatInt(c.start),
              end |-> FormatInt(c.end),
              step |-> FormatInt(c.step),
              authorization |-> c.token],
             IF sv.transport # "ok" THEN Failed("transport")
             ELSE IcpQueryResponse(sv, ords))

\* IcpQuery(host, token, start, end, step, query).  http.NewRequest parses
\* u.String(), the text of a URL that url.Parse produced, and does not fail.
IcpQueryRun(c, sv, ords) ==
    IF ~c.hostParses THEN Ran(0, NoReq, Failed("url parse"))
    ELSE IF ~c.certReadable THEN Ran(0, NoReq, Returned("fatal", <<>>, NoErr))
    ELSE Ran(1,
             [method |-> "GET",
              path |-> IcpQueryPath,
              query |-> c.query,
              start |-> FormatInt(c.start),
              end |-> FormatInt(c.end),
              step |-> FormatInt(steps(c.step, c.end - c.start)),
              authorization |-> c.token],
             IF sv.transport # "ok" THEN Failed("transport")
             ELSE IcpQueryResponse(sv, ords))

\* The iteration orders of the label sets of the result series.
ResultOrders(result) ==
    {ords \in [1..Len(result) ->
                  UNION {Orders(DOMAIN result[i].metric) : i \in 1..Len(result)}] :
        \A i \in 1..Len(result) : ords[i] \in Orders(DOMAIN result[i].metric)}

\* The sample pairs of the responses: well-formed pairs with timestamps of
\* -1/2 .. MaxTsHalf/2 seconds, each with its own value, and the malformed
\* pairs: one element, a numeric value, three elements.
MaxTsHalf == 2
MaxPairs == 2
MaxResults == 2
PairInputs ==
    {<<Num(h), Str(FormatInt(h))>> : h \in (-1)..MaxTsHalf}
    \cup {<<Num(0)>>, <<Num(0), Num(2)>>, <<Num(2), Str(Str_1), Str(Str_0)>>}
PairSeqs == UNION {[1..n -> PairInputs] : n \in 0..MaxPairs}
MetricInputs == {(Str_name :> Str_up), (Str_name :> Str_up) @@ (Str_job :> Str_api)}

\* The result lists: the first series is any label set of MetricInputs with
\* any pairs of PairSeqs; the series after it come from FollowingInputs.
FirstInputs == {[metric |-> m, values |-> ps] : m \in MetricInputs, ps \in PairSeqs}
FollowingInputs ==
    {[metric |-> (Str_name :> Str_up), values |-> << <<Num(2), Str(Str_1)>> >>],
     [metric |-> (Str_name :> Str_up) @@ (Str_job :> Str_api), values |-> <<>>]}
ResultInputs ==
    {<<>>} \cup
    UNION {{<<e>> \o rest : e \in FirstInputs, rest \in [1..n -> FollowingInputs]} :
              n \in 0..(MaxResults - 1)}

SimpleResult == << [metric |-> (Str_name :> Str_up),
                    values |-> << <<Num(2), Str(Str_1)>> >>] >>
OkServer == [transport |-> "ok", status |-> 200, json |-> TRUE,
             resultType |-> "matrix", result |-> SimpleResult]

\* The servers: every result list in a well-formed 200 response, and every
\* combination of a transport failure, a status, a malformed body and a
\* result type with no or one result series.
ServerInputs ==
    {[OkServer EXCEPT !.result = r] : r \in ResultInputs}
    \cup {[transport |-> tr, status |-> st, json |-> js, resultType |-> rt,
           result |-> r] :
            tr \in {"ok", "fail"}, st \in {200, 500}, js \in BOOLEAN,
            rt \in {"matrix", "vector"}, r \in {<<>>, SimpleResult}}

OkCall == [hostParses |-> TRUE, certReadable |-> TRUE, token |-> "token",
           query |-> "up", start |-> 0, end |-> 10 * Minute, step |-> 0]

\* The calls: every window of 1..MaxWindowSec seconds with every step of
\* -1..MaxQueryStep, from two start instants; and every environment.
MaxWindowSec == 1850
MaxQueryStep == 1
CallInputs ==
    {[OkCall EXCEPT !.start = st, !.end = st + d, !.step = sp] :
        st \in {0, 1000}, d \in 1..MaxWindowSec, sp \in (-1)..MaxQueryStep}
    \cup {[OkCall EXCEPT !.hostParses = hp, !.certReadable = cr] :
        hp \in BOOLEAN, cr \in BOOLEAN}

\* A run of Query.
Query ==
    /\ ~queryOut.done
    /\ \E ords \in ResultOrders(server.result) :
           queryOut' = QueryRun(call, server, ords)
    /\ UNCHANGED <<call, server, icpOut, stepsVars, nameVars, renderVars>>

\* A run of IcpQuery.
IcpQuery ==
    /\ ~icpOut.done
    /\ \E ords \in ResultOrders(server.result) :
           icpOut' = IcpQueryRun(call, server, ords)
    /\ UNCHANGED <<call, server, queryOut, stepsVars, nameVars, renderVars>>

-----------------------------------------------------------------------------
(* Specifications *)

\* steps applied to every input.
InitSteps ==
    /\ step \in StepInputs
    /\ dur \in DurInputs
    /\ stepsCalled = FALSE
    /\ stepsRet = 0
    /\ metric = <<>> /\ nameCalled = FALSE /\ nameRet = <<>> /\ nameSeen = {}
    /\ results = <<>> /\ renderer = "none" /\ w = <<>> /\ renderErr = "nil"
    /\ wSeen = {}
    /\ call = <<>> /\ server = <<>> /\ queryOut = <<>> /\ icpOut = <<>>
NextSteps == Steps
SpecSteps == InitSteps /\ [][NextSteps]_vars

\* metricName applied to every label set.
InitName ==
    /\ metric \in LabelSets
    /\ nameCalled = FALSE
    /\ nameRet = <<>>
    /\ nameSeen = {}
    /\ step = 0 /\ dur = 0 /\ stepsCalled = FALSE /\ stepsRet = 0
    /\ results = <<>> /\ renderer = "none" /\ w = <<>> /\ renderErr = "nil"
    /\ wSeen = {}
    /\ call = <<>> /\ server = <<>> /\ queryOut = <<>> /\ icpOut = <<>>
NextName == MetricName
SpecName == InitName /\ [][NextName]_vars

\* One renderer applied, any number of times, to every SeriesSet.
InitRender ==
    /\ results \in SeriesSets
    /\ renderer = "none"
    /\ w = <<>>
    /\ renderErr = "nil"
    /\ wSeen = {}
    /\ step = 0 /\ dur = 0 /\ stepsCalled = FALSE /\ stepsRet = 0
    /\ metric = <<>> /\ nameCalled = FALSE /\ nameRet = <<>> /\ nameSeen = {}
    /\ call = <<>> /\ server = <<>> /\ queryOut = <<>> /\ icpOut = <<>>
NextRender ==
    \/ CsvWriter
    \/ CsvHeaderWriter
    \/ MatplotlibWriter
    \/ MatplotlibLegendWriter
SpecRender == InitRender /\ [][NextRender]_vars

\* Query and IcpQuery, each run once on the same call and the same server:
\* every call against the plain server, and the plain call against every server.
InitQuery ==
    /\ \/ call \in CallInputs /\ server = OkServer
       \/ call = OkCall /\ server \in ServerInputs
    /\ queryOut = NotRun
    /\ icpOut = NotRun
    /\ step = 0 /\ dur = 0 /\ stepsCalled = FALSE /\ stepsRet = 0
    /\ metric = <<>> /\ nameCalled = FALSE /\ nameRet = <<>> /\ nameSeen = {}
    /\ results = <<>> /\ renderer = "none" /\ w = <<>> /\ renderErr = "nil"
    /\ wSeen = {}
NextQuery ==
    \/ Query
    \/ IcpQuery
SpecQuery == InitQuery /\ [][NextQuery]_vars


-----------------------------------------------------------------------------
(* Claims about steps (SpecSteps) *)

\* C4: steps follows the ordered policy, first match wins: step when
\* step > 0; else 1 when the duration is below 15 minutes; else 3 when it is
\* below 30 minutes; else floor(duration in minutes / 4.2), which for a
\* duration of dur seconds is floor(10 * dur / (42 * 60)).
C4_StepsPolicy ==
    stepsCalled =>
        stepsRet = IF step > 0 THEN step
                   ELSE IF dur < 15 * 60 THEN 1
                   ELSE IF dur < 30 * 60 THEN 3
                   ELSE (10 * dur) \div (42 * 60)

-----------------------------------------------------------------------------
(* Claims about metricName (SpecName) *)

\* The name the specification gives a label set: {} for the empty set; else
\* the value of __name__ (or nothing), followed, when there are other labels,
\* by their key="value" fragments in ascending order, comma-joined, in braces.
CanonicalName(m) ==
    LET base == IF Str_name \in DOMAIN m THEN m[Str_name] ELSE <<>>
        frags == {Fragment(k, m[k]) : k \in DOMAIN m \ {Str_name}}
        sorted == CHOOSE o \in Orders(frags) :
                      \A i, j \in 1..Len(o) : i < j => StrLess(o[i], o[j])
    IN  IF DOMAIN m = {} THEN Str_braces
        ELSE IF frags = {} THEN base
        ELSE base \o Str_lbrace \o Join(sorted, Str_comma) \o Str_rbrace

\* C6: metricName depends on the label set alone, whatever the iteration
\* order: every call returns the canonical name of the label set.
C6_MetricNameCanonical ==
    nameCalled =>
        /\ nameRet = CanonicalName(metric)
        /\ nameSeen = {CanonicalName(metric)}

\* C6's case: {__name__: up, job: api, instance: h1} gives
\* up{instance="h1",job="api"}.
C6_Witness ==
    /\ nameCalled
    /\ metric = (Str_name :> Str_up) @@ (Str_job :> Str_api) @@ (Str_instance :> Str_h1)
    /\ nameRet = <<117, 112, 123, 105, 110, 115, 116, 97, 110, 99, 101, 61, 34, 104, 49, 34, 44, 106, 111, 98, 61, 34, 97, 112, 105, 34, 125>>

-----------------------------------------------------------------------------
(* Claims about the renderers (SpecRender) *)

\* The keys of S in ascending numeric order.
NumericAscending(S) ==
    CHOOSE o \in Orders(S) :
        \A i, j \in 1..Len(o) : i < j => ParseInt(o[i]) < ParseInt(o[j])

\* The instants of the rows csvWriter wrote, in the order written.
RowInstants(sink) ==
    LET dates == SelectSeq(sink, LAMBDA x : x.kind = "date")
    IN  [r \in 1..Len(dates) |-> dates[r].unix]

\* C1: for a non-empty SeriesSet with non-negative integer timestamps, the
\* timestamp axis of csvWriter and of matplotlibWriter is the union of the
\* sample timestamps, each once, in strictly ascending numeric order.
C1_AxisNumericAscending ==
    LET axis == NumericAscending(TimesMap(results))
    IN  /\ (renderer = "csvWriter" /\ results # <<>>) =>
               RowInstants(w) = [r \in 1..Len(axis) |-> ParseInt(axis[r])]
        /\ (renderer = "matplotlibWriter" /\ results # <<>>) =>
               w[1] = Text(Str_tOpen \o Join(axis, Str_commaSpace) \o Str_listClose)

\* The field of a Series at a timestamp: its sample value, or the absence
\* marker.
FieldAt(result, tm, absent) ==
    IF tm \in DOMAIN result.Values THEN result.Values[tm] ELSE absent

\* The CSV rows for the timestamps of axis: per timestamp one row, per Series
\* one field.
GridRows(rs, axis) ==
    Flatten([r \in 1..Len(axis) |->
        <<Date(ParseInt(axis[r]))>>
        \o [i \in 1..Len(rs) |-> Text(Str_comma \o FieldAt(rs[i], axis[r], <<>>))]
        \o <<Text(Str_nl)>>])

\* The plotting lines for the timestamps of axis: per Series one value list
\* with one position per timestamp.
GridLists(rs, axis) ==
    <<Text(Str_tOpen \o Join(axis, Str_commaSpace) \o Str_listClose)>>
    \o Flatten([i \in 1..Len(rs) |->
        <<Text(Str_s \o FormatInt(i - 1) \o Str_listOpen
               \o Join([r \in 1..Len(axis) |-> FieldAt(rs[i], axis[r], Str_None)],
                       Str_commaSpace)
               \o Str_listClose),
          Text(Str_plotOpen \o FormatInt(i - 1) \o Str_plotClose)>>])

\* C2: for a non-empty SeriesSet, every timestamp of the union yields exactly
\* one CSV row and one position in every plotting value list, with one field
\* per Series in SeriesSet order: the sample value, or else the absence
\* marker (empty in CSV, None in plotting output).
C2_GridComplete ==
    /\ (renderer = "csvWriter" /\ results # <<>>) =>
           \E axis \in Orders(TimesMap(results)) : w = GridRows(results, axis)
    /\ (renderer = "matplotlibWriter" /\ results # <<>>) =>
           \E axis \in Orders(TimesMap(results)) : w = GridLists(results, axis)

\* C2's case: series with timestamps {10, 20} and {20, 30}; series 2 is
\* absent at 10 and series 1 is absent at 30.
C2_Witness ==
    /\ renderer = "matplotlibWriter"
    /\ Len(results) = 2
    /\ DOMAIN results[1].Values = TimeKeys({10, 20})
    /\ DOMAIN results[2].Values = TimeKeys({20, 30})
    /\ w[1] = Text(<<116, 32, 61, 32, 91, 49, 48, 44, 32, 50, 48, 44, 32, 51, 48, 93, 10>>)
    /\ w[2] = Text(<<115, 48, 32, 61, 32, 91, 49, 44, 32, 49, 44, 32, 78, 111, 110, 101, 93, 10>>)
    /\ w[4] = Text(<<115, 49, 32, 61, 32, 91, 78, 111, 110, 101, 44, 32, 48, 44, 32, 48, 93, 10>>)

\* C3: for the empty SeriesSet every renderer writes nothing and returns no
\* error.
C3_EmptyWritesNothing ==
    (results = <<>> /\ renderer # "none") => (w = <<>> /\ renderErr = "nil")

\* C10: rendering is deterministic (every call of a renderer on a SeriesSet
\* writes the same output, whatever the iteration order) and leaves the
\* SeriesSet unchanged.
C10_RenderDeterministic ==
    /\ [](Cardinality(wSeen) <= 1)
    /\ [][results' = results]_vars

\* C10's case: csvWriter has rendered two Series with three timestamps, which
\* the map iteration may present in six orders.
C10_Witness ==
    /\ renderer = "csvWriter"
    /\ Len(results) = 2
    /\ Cardinality(TimesMap(results)) = 3
    /\ wSeen = {w}
    /\ Len(w) = 12

-----------------------------------------------------------------------------
(* Claims about Query and IcpQuery (SpecQuery) *)

\* A string of decimal digits, at least one.
IsDecimal(str) == Len(str) >= 1 /\ \A i \in 1..Len(str) : str[i] \in 48..57

\* C5: whatever the explicit step (positive, zero or negative) and the
\* window with end > start, the step parameter that Query and IcpQuery send,
\* which is the step that steps returns, is an integer >= 1, never 0.
C5_StepAtLeastOne ==
    \A o \in {queryOut, icpOut} :
        (o.done /\ o.gets = 1 /\ call.end > call.start) =>
            /\ IsDecimal(o.req.step)
            /\ ParseNat(o.req.step) >= 1
            /\ (call.step > 0 => ParseNat(o.req.step) = call.step)

\* C5's case: step 0 and a window of 30 minutes, where the step sent is the
\* quotient of the duration: 7.
C5_Witness ==
    /\ queryOut.done /\ icpOut.done
    /\ call.step = 0
    /\ call.end - call.start = 30 * 60
    /\ queryOut.req.step = <<55>>
    /\ icpOut.req.step = <<55>>

\* A sample pair that is not [number, string]: wrong arity or element type.
ShapeViolation(vals) ==
    \/ Len(vals) # 2
    \/ vals[1].t # "num"
    \/ vals[2].t # "str"

\* The outcome o of a run that sent its request to path returns either a
\* SeriesSet or an error, classified in the order of the response checks.
ClassifiedInOrder(o, path) ==
    /\ o.ret.kind \in {"series", "error"}
    /\ o.ret.kind = "series" => (o.ret.results # <<>> /\ o.ret.err = NoErr)
    /\ o.ret.kind = "error" => (o.ret.results = <<>> /\ o.ret.err # NoErr)
    /\ IF server.transport # "ok" THEN
           o.ret.kind = "error" /\ o.ret.err.kind = "transport"
       ELSE IF server.status # 200 THEN
           /\ o.ret.kind = "error" /\ o.ret.err.kind = "status"
           /\ o.ret.err.status = server.status /\ o.ret.err.path = path
       ELSE IF ~server.json THEN
           o.ret.kind = "error" /\ o.ret.err.kind = "decode"
       ELSE IF server.resultType # "matrix" THEN
           o.ret.kind = "error" /\ o.ret.err.kind = "result type"
       ELSE IF Len(server.result) = 0 THEN
           o.ret.kind = "error" /\ o.ret.err.kind = "no timeseries"
       ELSE IF \E i \in 1..Len(server.result) :
                   \E j \in 1..Len(server.result[i].values) :
                       ShapeViolation(server.result[i].values[j]) THEN
           o.ret.kind = "error"
       ELSE
           o.ret.kind = "series" /\ Len(o.ret.results) = Len(server.result)

\* C7: every run of Query or IcpQuery that gets as far as its request ends by
\* returning a complete SeriesSet or an error, never both; the response is
\* classified in the order transport failure, status, body, result type,
\* empty result; a shape violation inside a sample pair ends in an error
\* return.
C7_ReturnsSeriesOrError ==
    /\ (queryOut.done /\ queryOut.gets = 1) => ClassifiedInOrder(queryOut, QueryPath)
    /\ (icpOut.done /\ icpOut.gets = 1) => ClassifiedInOrder(icpOut, IcpQueryPath)

\* The integer a timestamp of h half seconds rounds to, halves to even.
RoundToInteger(h) ==
    LET a == IF h < 0 THEN -h ELSE h
        q == a \div 2
        rounded == IF a % 2 = 1 /\ q % 2 = 1 THEN q + 1 ELSE q
    IN  IF h < 0 THEN -rounded ELSE rounded

\* The Series r is the entry e of the result list: the display name of its
\* label set, and one key per distinct integer-rounded timestamp, mapped to
\* the value of the last pair that rounds to it.
SeriesOfEntry(r, e) ==
    LET n == Len(e.values)
        ints == {RoundToInteger(e.values[j][1].num) : j \in 1..n}
    IN  /\ r.Metric = CanonicalName(e.metric)
        /\ Cardinality(DOMAIN r.Values) = Cardinality(ints)
        /\ \A k \in DOMAIN r.Values :
               \E j \in 1..n :
                   /\ RoundToInteger(e.values[j][1].num) = ParseInt(k)
                   /\ r.Values[k] = e.values[j][2].str
                   /\ \A l \in (j + 1)..n :
                          RoundToInteger(e.values[l][1].num) # ParseInt(k)

\* C8: a successful query returns one Series per entry of the result list, in
\* response order, none merged; each has the display name metricName gives
\* the entry's label set and a samples map with one key per distinct
\* integer-rounded timestamp, mapped to the value string of the last pair
\* that rounds to it.
C8_SeriesFollowResponse ==
    \A o \in {queryOut, icpOut} :
        (o.done /\ o.ret.kind = "series") =>
            /\ Len(o.ret.results) = Len(server.result)
            /\ \A i \in 1..Len(server.result) :
                   SeriesOfEntry(o.ret.results[i], server.result[i])

\* C9: on the same call and the same server, Query and IcpQuery send the same
\* query, start, end and step parameters; each issues one GET and no more,
\* once the host parses and the trust bundle loads; they return the same
\* SeriesSet or the same kind of error; they differ in the path and in
\* IcpQuery setting the Authorization header to the token.
C9_SameOperation ==
    (queryOut.done /\ icpOut.done) =>
        /\ queryOut.gets = icpOut.gets
        /\ queryOut.gets <= 1
        /\ (call.hostParses /\ call.certReadable) => queryOut.gets = 1
        /\ queryOut.ret.kind = icpOut.ret.kind
        /\ queryOut.ret.results = icpOut.ret.results
        /\ queryOut.ret.err.kind = icpOut.ret.err.kind
        /\ queryOut.ret.err.status = icpOut.ret.err.status
        /\ queryOut.gets = 1 =>
               /\ queryOut.req.method = "GET" /\ icpOut.req.method = "GET"
               /\ queryOut.req.query = call.query /\ icpOut.req.query = call.query
               /\ queryOut.req.start = icpOut.req.start
               /\ queryOut.req.end = icpOut.req.end
               /\ queryOut.req.step = icpOut.req.step
               /\ queryOut.req.path = "api/v1/query_range"
               /\ icpOut.req.path = "prometheus/api/v1/query_range"
               /\ queryOut.req.authorization = ""
               /\ icpOut.req.authorization = call.token

\* C9's case: both have run against a response of two result series and both
\* returned the SeriesSet, having sent their requests to their own paths.
C9_Witness ==
    /\ queryOut.done /\ icpOut.done
    /\ queryOut.ret.kind = "series" /\ icpOut.ret.kind = "series"
    /\ Len(queryOut.ret.results) = 2
    /\ queryOut.req.path # icpOut.req.path
    /\ icpOut.req.authorization = "token"

=============================================================================
